---- MODULE Spec2Model ----
(***************************************************************************)
(* Model of the YewChat client chat session                                *)
(* (YewChat/src/components/chat.rs): the Chat component, its wire          *)
(* envelope WebSocketMessage, the serde_json encode/decode of the envelope *)
(* and of the nested MessageData payload, and the three messages of        *)
(* Chat::update.                                                           *)
(*                                                                         *)
(* Text on the wire is modelled by its JSON structure:                     *)
(*   [k |-> "raw", s |-> chars]   a text that is not a JSON object         *)
(*   [k |-> "obj", o |-> record]  the text of a JSON object with the keys  *)
(*                                DOMAIN o                                 *)
(* and a JSON value is [t |-> "null"], [t |-> "num"],                      *)
(* [t |-> "str", v |-> text] (a string whose characters are the text v)    *)
(* or [t |-> "arr", a |-> sequence of plain strings].                      *)
(***************************************************************************)
EXTENDS Integers, Sequences, FiniteSets, TLC

VARIABLES status, username, users, messages, chat_input, sidebar_visible,
          sent, last, shown, inbound

(* shown is the profile the last render resolved for each log entry;      *)
(* inbound is the history of the well-formed Message envelopes handled.    *)
vars == <<status, username, users, messages, chat_input, sidebar_visible,
          sent, last, shown, inbound>>

----------------------------------------------------------------------------
(* Bounds of the model                                                     *)

MaxLog == 2

MaxSent == 2

MaxUsers == 2

(* Values the environment supplies                                         *)

Names == {"amy", "bo"}

Inputs == {"", "  ", "hello"}

----------------------------------------------------------------------------
(* JSON texts and values                                                   *)

Raw(s) == [k |-> "raw", s |-> s]

Obj(o) == [k |-> "obj", o |-> o]

JNull == [t |-> "null"]

JNum == [t |-> "num"]

JText(txt) == [t |-> "str", v |-> txt]

JStr(s) == JText(Raw(s))

JArr(a) == [t |-> "arr", a |-> a]

None == [some |-> FALSE]

Some(x) == [some |-> TRUE, val |-> x]

Err == [ok |-> FALSE]

Ok(x) == [ok |-> TRUE, val |-> x]

(* A JSON value that is a string of plain characters                       *)
IsPlainStr(j) == j.t = "str" /\ j.v.k = "raw"

----------------------------------------------------------------------------
(* enum MsgTypes with #[serde(rename_all = "lowercase")]                   *)

MsgTypes == {"Users", "Register", "Message"}

MsgTypesTag(variant) ==
    CASE variant = "Users" -> "users"
      [] variant = "Register" -> "register"
      [] variant = "Message" -> "message"

MsgTypesOfTag(tag) ==
    IF \E v \in MsgTypes : MsgTypesTag(v) = tag
    THEN Ok(CHOOSE v \in MsgTypes : MsgTypesTag(v) = tag)
    ELSE Err

----------------------------------------------------------------------------
(* struct WebSocketMessage, #[serde(rename_all = "camelCase")]             *)

WebSocketMessage(mt, da, d) ==
    [message_type |-> mt, data_array |-> da, data |-> d]

(* Option<Vec<String>>: a missing key and null are None                    *)
DeOptVec(o, key) ==
    IF key \notin DOMAIN o THEN Ok(None)
    ELSE IF o[key].t = "null" THEN Ok(None)
    ELSE IF o[key].t = "arr" THEN Ok(Some(o[key].a))
    ELSE Err

(* Option<String>: a missing key and null are None                         *)
DeOptString(o, key) ==
    IF key \notin DOMAIN o THEN Ok(None)
    ELSE IF o[key].t = "null" THEN Ok(None)
    ELSE IF o[key].t = "str" THEN Ok(Some(o[key].v))
    ELSE Err

(* serde_json::from_str::<WebSocketMessage>                                *)
DecodeEnvelope(s) ==
    IF s.k # "obj" THEN Err
    ELSE LET o == s.o IN
      IF "messageType" \notin DOMAIN o THEN Err
      ELSE IF ~IsPlainStr(o["messageType"]) THEN Err
      ELSE LET mt == MsgTypesOfTag(o["messageType"].v.s)
               da == DeOptVec(o, "dataArray")
               d  == DeOptString(o, "data")
           IN IF mt.ok /\ da.ok /\ d.ok
              THEN Ok(WebSocketMessage(mt.val, da.val, d.val))
              ELSE Err

(* variant of EncodeEnvelope: the data field is always written as null     *)
EncodeEnvelopeDroppingData(m) ==
    Obj([messageType |-> JStr(MsgTypesTag(m.message_type)),
         dataArray |-> IF m.data_array.some THEN JArr(m.data_array.val)
                       ELSE JNull,
         data |-> JNull])

(* serde_json::to_string(&WebSocketMessage): every field is written, a     *)
(* None as null                                                            *)
EncodeEnvelope(m) ==
    Obj([messageType |-> JStr(MsgTypesTag(m.message_type)),
         dataArray |-> IF m.data_array.some THEN JArr(m.data_array.val)
                       ELSE JNull,
         data |-> IF m.data.some THEN JText(m.data.val) ELSE JNull])

----------------------------------------------------------------------------
(* struct MessageData { from, message }                                    *)

MessageData(f, b) == [from |-> f, message |-> b]

(* serde_json::from_str::<MessageData>: both fields are required strings   *)
DecodeMessageData(s) ==
    IF s.k # "obj" THEN Err
    ELSE LET o == s.o IN
      IF "from" \notin DOMAIN o \/ "message" \notin DOMAIN o THEN Err
      ELSE IF ~IsPlainStr(o["from"]) \/ ~IsPlainStr(o["message"]) THEN Err
      ELSE Ok(MessageData(o["from"].v.s, o["message"].v.s))

----------------------------------------------------------------------------
(* struct UserProfile { name, avatar }                                     *)

(* variant of AvatarUrl: another avatar collection                         *)
AvatarUrlOtherStyle(u) ==
    "https://avatars.dicebear.com/api/adventurer/" \o u \o ".svg"

AvatarUrl(u) ==
    "https://avatars.dicebear.com/api/adventurer-neutral/" \o u \o ".svg"

UserProfile(u) == [name |-> u, avatar |-> AvatarUrl(u)]

(* users_from_message.iter().map(|u| UserProfile {..}).collect()           *)
ProfilesOf(names) == [i \in 1..Len(names) |-> UserProfile(names[i])]

----------------------------------------------------------------------------
(* Frames the transport delivers to Msg::HandleMsg                         *)

(* the (from, body) pairs of the inbound chat messages                     *)
Chats == {<<"amy", "hi">>, <<"bo", "yo">>}

UserLists == UNION {[1..n -> Names] : n \in 0..MaxUsers}

UsersFrame(l) == Obj([messageType |-> JStr("users"), dataArray |-> JArr(l)])

PayloadText(f, b) == Obj([from |-> JStr(f), message |-> JStr(b)])

MessageFrame(f, b) ==
    Obj([messageType |-> JStr("message"), data |-> JText(PayloadText(f, b))])

UsersFrames == {UsersFrame(l) : l \in UserLists}

MessageFrames == {MessageFrame(c[1], c[2]) : c \in Chats}

(* the (from, message) pair a well-formed Message envelope carries         *)
ChatOf(s) ==
    LET c == CHOOSE c \in Chats : s = MessageFrame(c[1], c[2])
    IN [from |-> c[1], message |-> c[2]]

(* Users envelopes with the list missing or null                           *)
UsersNoListFrames ==
    {Obj([messageType |-> JStr("users")]),
     Obj([messageType |-> JStr("users"), dataArray |-> JNull])}

(* Message envelopes whose data is missing, null, not JSON, or a JSON      *)
(* object without the message field                                        *)
BadPayloadFrames ==
    {Obj([messageType |-> JStr("message")]),
     Obj([messageType |-> JStr("message"), data |-> JNull]),
     Obj([messageType |-> JStr("message"), data |-> JStr("hello")]),
     Obj([messageType |-> JStr("message"),
          data |-> JText(Obj([from |-> JStr("amy")]))])}

RegisterFrame == Obj([messageType |-> JStr("register"), data |-> JStr("bo")])

PingFrame == Obj([messageType |-> JStr("ping")])

(* Not JSON at all, or a JSON object with no messageType                   *)
BadEnvelopeFrames == {Raw("not json"), Obj([data |-> JStr("amy")])}

Frames ==
    UsersFrames \cup MessageFrames \cup UsersNoListFrames
      \cup BadPayloadFrames \cup {RegisterFrame, PingFrame}
      \cup BadEnvelopeFrames

----------------------------------------------------------------------------
(* Chat::update, Msg::HandleMsg(s)                                         *)

Panicked(us, ms) ==
    [users |-> us, messages |-> ms, ret |-> FALSE, panicked |-> TRUE]

Returned(us, ms, r) ==
    [users |-> us, messages |-> ms, ret |-> r, panicked |-> FALSE]

(* variant of UsersArm: an envelope without a list keeps the old roster    *)
UsersArmKeepingWithoutList(us, msg) ==
    IF msg.data_array.some THEN ProfilesOf(msg.data_array.val) ELSE us

(* variants of UsersArm: the new list is merged into the old roster, or    *)
(* the profiles come out in reverse order                                  *)
UsersArmMerging(us, msg) ==
    us \o ProfilesOf(IF msg.data_array.some THEN msg.data_array.val ELSE <<>>)

UsersArmReversing(us, msg) ==
    LET l == IF msg.data_array.some THEN msg.data_array.val ELSE <<>>
    IN [i \in 1..Len(l) |-> UserProfile(l[Len(l) + 1 - i])]

(* MsgTypes::Users arm: the new self.users                                 *)
UsersArm(us, msg) ==
    LET users_from_message ==
          IF msg.data_array.some THEN msg.data_array.val ELSE <<>>
    IN ProfilesOf(users_from_message)

(* variant of MessageArm: an entry equal to one already logged is dropped  *)
MessageArmDeduplicating(ms, message_data) ==
    IF \E i \in 1..Len(ms) : ms[i] = message_data THEN ms
    ELSE Append(ms, message_data)

(* variants of MessageArm: the log is restarted, or the entry is put first *)
MessageArmRestarting(ms, message_data) == <<message_data>>

MessageArmPrepending(ms, message_data) == <<message_data>> \o ms

(* MsgTypes::Message arm: self.messages.push(message_data)                 *)
MessageArm(ms, message_data) == Append(ms, message_data)

HandleMsgResult(us, ms, s) ==
    LET msg == DecodeEnvelope(s) IN
    IF ~msg.ok THEN Panicked(us, ms)
    ELSE IF msg.val.message_type = "Users"
         THEN Returned(UsersArm(us, msg.val), ms, TRUE)
    ELSE IF msg.val.message_type = "Message"
         THEN IF ~msg.val.data.some THEN Panicked(us, ms)
              ELSE LET message_data == DecodeMessageData(msg.val.data.val) IN
                   IF ~message_data.ok THEN Panicked(us, ms)
                   ELSE Returned(us, MessageArm(ms, message_data.val), TRUE)
    ELSE Returned(us, ms, FALSE)

----------------------------------------------------------------------------
(* Chat::view: the profile shown next to each log entry                    *)

(* the fallback profile built from the entry's sender                      *)
DefaultProfile(m) ==
    [name |-> m.from,
     avatar |-> "https://avatars.dicebear.com/api/adventurer-neutral/"
                  \o m.from \o ".svg"]

(* variant of ResolveSender: an unknown sender is shown as the first       *)
(* roster user                                                             *)
ResolveSenderFirstUser(us, m) ==
    IF \E j \in 1..Len(us) : us[j].name = m.from
    THEN us[CHOOSE j \in 1..Len(us) :
              /\ us[j].name = m.from
              /\ \A h \in 1..(j - 1) : us[h].name # m.from]
    ELSE IF Len(us) > 0 THEN us[1] ELSE DefaultProfile(m)

(* self.users.iter().find(|u| u.name == m.from).unwrap_or(&default_profile) *)
ResolveSender(us, m) ==
    IF \E j \in 1..Len(us) : us[j].name = m.from
    THEN us[CHOOSE j \in 1..Len(us) :
              /\ us[j].name = m.from
              /\ \A h \in 1..(j - 1) : us[h].name # m.from]
    ELSE DefaultProfile(m)

(* self.messages.iter().map(..): one resolved profile per log entry        *)
View(us, ms) == [i \in 1..Len(ms) |-> ResolveSender(us, ms[i])]

(* the component is rendered again when update returns true                *)
Rendered(ret, old, us, ms) == IF ret THEN View(us, ms) ELSE old

----------------------------------------------------------------------------
(* Chat::update, Msg::SubmitMessage                                        *)

(* variant of SubmitEnvelope: the text is put into data_array              *)
SubmitEnvelopeInArray(value) ==
    WebSocketMessage("Message", Some(<<value>>), None)

(* the envelope built from the input element's value                       *)
SubmitEnvelope(value) == WebSocketMessage("Message", None, Some(Raw(value)))

(* variant of SubmitSends: the envelope is handed over twice               *)
SubmitSendsTwice(value) ==
    <<EncodeEnvelope(SubmitEnvelope(value)),
      EncodeEnvelope(SubmitEnvelope(value))>>

(* the texts handed to wss.tx.try_send by one submit                       *)
SubmitSends(value) == <<EncodeEnvelope(SubmitEnvelope(value))>>

(* variant of InputAfterSubmit: the input is kept when the send failed     *)
InputKeptOnFailure(value, sendOk) == IF sendOk THEN "" ELSE value

(* input.set_value("") after the send, whatever its outcome                *)
InputAfterSubmit(value, sendOk) == ""

(* log::debug! lines of one submit                                         *)
SubmitLogged(sendOk) == IF sendOk THEN 0 ELSE 1

----------------------------------------------------------------------------
(* Chat::create                                                            *)

(* variant of RegisterEnvelope: the username is left out                   *)
RegisterEnvelopeUnnamed(name) == WebSocketMessage("Register", None, None)

RegisterEnvelope(name) == WebSocketMessage("Register", None, Some(Raw(name)))

CreateSends(name) == <<EncodeEnvelope(RegisterEnvelope(name))>>

CreateLogged(sendOk) == IF sendOk THEN 1 ELSE 0

----------------------------------------------------------------------------
(* The record of the event handled last                                    *)

Event(op, s, input, ret, panicked, tried, sendOk, logged) ==
    [op |-> op, s |-> s, input |-> input, ret |-> ret, panicked |-> panicked,
     tried |-> tried, sendOk |-> sendOk, logged |-> logged]

NoEvent == Event("none", Raw(""), "", FALSE, FALSE, 0, FALSE, 0)

Init ==
    /\ status = "Initializing"
    /\ username \in Names
    /\ users = <<>>
    /\ messages = <<>>
    /\ chat_input = [mounted |-> FALSE, value |-> ""]
    /\ sidebar_visible = TRUE
    /\ sent = <<>>
    /\ last = NoEvent
    /\ shown = <<>>
    /\ inbound = <<>>

(* variant of Create: the result of try_send is unwrapped                  *)
CreateUnwrapping ==
    /\ status = "Initializing"
    /\ \E sendOk \in BOOLEAN :
         /\ sent' = sent \o CreateSends(username)
         /\ last' = Event("create", Raw(""), "", FALSE, ~sendOk,
                          Len(CreateSends(username)), sendOk,
                          CreateLogged(sendOk))
         /\ status' = IF sendOk THEN "Active" ELSE "Crashed"
    /\ users' = <<>>
    /\ messages' = <<>>
    /\ chat_input' = [mounted |-> TRUE, value |-> ""]
    /\ sidebar_visible' = TRUE
    /\ shown' = View(<<>>, <<>>)
    /\ UNCHANGED <<username, inbound>>

(* create, followed by the first render, which mounts the input element    *)
Create ==
    /\ status = "Initializing"
    /\ \E sendOk \in BOOLEAN :
         /\ sent' = sent \o CreateSends(username)
         /\ last' = Event("create", Raw(""), "", FALSE, FALSE,
                          Len(CreateSends(username)), sendOk,
                          CreateLogged(sendOk))
    /\ users' = <<>>
    /\ messages' = <<>>
    /\ chat_input' = [mounted |-> TRUE, value |-> ""]
    /\ sidebar_visible' = TRUE
    /\ status' = "Active"
    /\ shown' = View(<<>>, <<>>)
    /\ UNCHANGED <<username, inbound>>

(* variant of HandleMsg: every handled frame is sent back on the transport *)
HandleMsgEchoing(s) ==
    /\ status = "Active"
    /\ LET r == HandleMsgResult(users, messages, s) IN
         /\ Len(r.messages) <= MaxLog
         /\ users' = r.users
         /\ messages' = r.messages
         /\ status' = IF r.panicked THEN "Crashed" ELSE status
         /\ last' = Event("HandleMsg", s, "", r.ret, r.panicked, 1, TRUE, 0)
         /\ shown' = Rendered(r.ret, shown, r.users, r.messages)
    /\ inbound' = IF s \in MessageFrames THEN Append(inbound, ChatOf(s))
                  ELSE inbound
    /\ Len(inbound') <= MaxLog
    /\ Len(sent) < MaxSent
    /\ sent' = Append(sent, s)
    /\ UNCHANGED <<username, chat_input, sidebar_visible>>

HandleMsg(s) ==
    /\ status = "Active"
    /\ LET r == HandleMsgResult(users, messages, s) IN
         /\ Len(r.messages) <= MaxLog
         /\ users' = r.users
         /\ messages' = r.messages
         /\ status' = IF r.panicked THEN "Crashed" ELSE status
         /\ last' = Event("HandleMsg", s, "", r.ret, r.panicked, 0, FALSE, 0)
         /\ shown' = Rendered(r.ret, shown, r.users, r.messages)
    /\ inbound' = IF s \in MessageFrames THEN Append(inbound, ChatOf(s))
                  ELSE inbound
    /\ Len(inbound') <= MaxLog
    /\ UNCHANGED <<username, chat_input, sidebar_visible, sent>>

(* the user edits the input element                                        *)
TypeInput(v) ==
    /\ status = "Active"
    /\ chat_input.mounted
    /\ chat_input.value # v
    /\ chat_input' = [chat_input EXCEPT !.value = v]
    /\ UNCHANGED <<status, username, users, messages, sidebar_visible, sent,
                   last, shown, inbound>>

(* variant of SubmitMessage: the submitted text is also pushed to the log  *)
SubmitMessageEchoing ==
    /\ status = "Active"
    /\ Len(sent) < MaxSent
    /\ Len(messages) < MaxLog
    /\ chat_input.mounted
    /\ \E sendOk \in BOOLEAN :
         /\ sent' = sent \o SubmitSends(chat_input.value)
         /\ chat_input' =
              [chat_input EXCEPT
                 !.value = InputAfterSubmit(chat_input.value, sendOk)]
         /\ last' = Event("SubmitMessage", Raw(""), chat_input.value,
                          TRUE, FALSE,
                          Len(SubmitSends(chat_input.value)), sendOk,
                          SubmitLogged(sendOk))
    /\ messages' = Append(messages, MessageData(username, chat_input.value))
    /\ shown' = Rendered(TRUE, shown, users, messages')
    /\ UNCHANGED <<status, username, users, sidebar_visible, inbound>>

SubmitMessage ==
    /\ status = "Active"
    /\ Len(sent) < MaxSent
    /\ IF chat_input.mounted
       THEN \E sendOk \in BOOLEAN :
              /\ sent' = sent \o SubmitSends(chat_input.value)
              /\ chat_input' =
                   [chat_input EXCEPT
                      !.value = InputAfterSubmit(chat_input.value, sendOk)]
              /\ last' = Event("SubmitMessage", Raw(""), chat_input.value,
                               FALSE, FALSE,
                               Len(SubmitSends(chat_input.value)), sendOk,
                               SubmitLogged(sendOk))
       ELSE /\ UNCHANGED <<sent, chat_input>>
            /\ last' = Event("SubmitMessage", Raw(""), "", FALSE, FALSE, 0,
                             FALSE, 0)
    /\ shown' = Rendered(FALSE, shown, users, messages)
    /\ UNCHANGED <<status, username, users, messages, sidebar_visible,
                   inbound>>

ToggleSidebar ==
    /\ status = "Active"
    /\ sidebar_visible' = ~sidebar_visible
    /\ last' = Event("ToggleSidebar", Raw(""), "", TRUE, FALSE, 0, FALSE, 0)
    /\ shown' = Rendered(TRUE, shown, users, messages)
    /\ UNCHANGED <<status, username, users, messages, chat_input, sent,
                   inbound>>

Next ==
    \/ Create
    \/ \E s \in Frames : HandleMsg(s)
    \/ \E v \in Inputs : TypeInput(v)
    \/ SubmitMessage
    \/ ToggleSidebar

Spec == Init /\ [][Next]_vars

----------------------------------------------------------------------------
(* Properties                                                              *)

IsPrefix(a, b) == Len(a) <= Len(b) /\ \A i \in 1..Len(a) : a[i] = b[i]

ChatMessage(c) == [from |-> c[1], message |-> c[2]]

(* the avatar URL template of the specification                            *)
Url(name) ==
    "https://avatars.dicebear.com/api/adventurer-neutral/" \o name \o ".svg"

(* inputs that are empty after trimming                                    *)
BlankInputs == {"", "  "}

(* C1: the message log is append-only: in every step the log before the    *)
(* step is a prefix of the log after it, so its length never decreases and *)
(* every entry keeps its position and its (from, body) content.            *)
C1_AppendOnlyLog == [][IsPrefix(messages, messages')]_vars

C1_Witness ==
    /\ Len(messages) >= 2
    /\ messages[1] # messages[2]
    /\ Len(sent) >= 2
    /\ last.op = "HandleMsg"
    /\ ~last.panicked

(* C2: after a Users envelope with the username list l has been handled,   *)
(* the roster has the length of l and its i-th profile is                  *)
(* {name: l[i], avatar: url(l[i])}, duplicates kept, the empty list giving *)
(* the empty roster; the handler returns true (re-render).                 *)
C2_RosterReplaced ==
    \A l \in UserLists :
      (last.op = "HandleMsg" /\ last.s = UsersFrame(l)) =>
        /\ status = "Active"
        /\ last.ret
        /\ Len(users) = Len(l)
        /\ \A i \in 1..Len(l) :
             users[i] = [name |-> l[i], avatar |-> Url(l[i])]

C2_Witness ==
    /\ last.op = "HandleMsg"
    /\ last.s = UsersFrame(<<"bo", "bo">>)
    /\ Len(users) = 2
    /\ users[1] = users[2]
    /\ users[1].name = "bo"

(* C3: from every reachable state of an active session, handling the same  *)
(* Users envelope twice leaves the roster and the log that handling it     *)
(* once leaves.                                                            *)
C3_UsersIdempotent ==
    status = "Active" =>
      \A s \in UsersFrames :
        LET once == HandleMsgResult(users, messages, s)
            twice == HandleMsgResult(once.users, once.messages, s)
        IN /\ ~once.panicked /\ ~twice.panicked
           /\ twice.users = once.users
           /\ twice.messages = once.messages

C3_Witness ==
    /\ last.op = "HandleMsg"
    /\ last.s = UsersFrame(<<"bo", "amy">>)
    /\ Len(messages) >= 1
    /\ Len(users) = 2
    /\ HandleMsgResult(users, messages, last.s).users = users

(* C4: handling a Message envelope whose payload decodes to (f, b) appends *)
(* exactly the entry (f, b) at the end of the log, leaves the roster       *)
(* unchanged, sends nothing and returns true (re-render).                  *)
C4_MessageAppended ==
    [][\A c \in Chats :
         (/\ last'.op = "HandleMsg"
          /\ last'.s = MessageFrame(c[1], c[2])
          /\ HandleMsg(MessageFrame(c[1], c[2]))) =>
           /\ messages' = messages \o <<ChatMessage(c)>>
           /\ users' = users
           /\ sent' = sent
           /\ last'.tried = 0
           /\ last'.ret
           /\ status' = "Active"]_vars

C4_Witness ==
    /\ last.op = "HandleMsg"
    /\ last.s = MessageFrame("bo", "yo")
    /\ Len(messages) = 2
    /\ messages[1] = ChatMessage(<<"amy", "hi">>)
    /\ messages[2] = ChatMessage(<<"bo", "yo">>)
    /\ Len(users) >= 1

(* C5: a well-formed envelope whose messageType is neither users nor       *)
(* message (the unknown tag "ping", an inbound register) leaves the        *)
(* session Active and the roster and the log unchanged, sends nothing and  *)
(* returns false (no re-render).                                           *)
C5_UnknownKindIgnored ==
    [][\A s \in {PingFrame, RegisterFrame} :
         HandleMsg(s) =>
           /\ status' = "Active"
           /\ ~last'.panicked
           /\ users' = users
           /\ messages' = messages
           /\ sent' = sent
           /\ ~last'.ret]_vars

(* C6: a frame that is not JSON or has no messageType does not crash the   *)
(* session: it stays Active, roster and log are unchanged, and exactly one *)
(* diagnostic is recorded.                                                 *)
C6_MalformedEnvelopeDropped ==
    [][\A s \in BadEnvelopeFrames :
         HandleMsg(s) =>
           /\ status' = "Active"
           /\ ~last'.panicked
           /\ users' = users
           /\ messages' = messages
           /\ last'.logged = 1]_vars

(* C7: a Message envelope whose data is absent or does not decode into     *)
(* {from, message} does not crash the session: it stays Active and the     *)
(* roster and the log are unchanged.                                       *)
C7_MalformedPayloadDropped ==
    [][\A s \in BadPayloadFrames :
         HandleMsg(s) =>
           /\ status' = "Active"
           /\ ~last'.panicked
           /\ users' = users
           /\ messages' = messages]_vars

(* C8: a submit with an empty or whitespace-only input hands nothing to    *)
(* the transport and leaves the roster and the log unchanged.              *)
C8_EmptySubmitNoSend ==
    [][(SubmitMessage /\ chat_input.value \in BlankInputs) =>
         /\ sent' = sent
         /\ last'.tried = 0
         /\ users' = users
         /\ messages' = messages
         /\ status' = "Active"]_vars

(* C9: a submit with an input that is non-empty after trimming hands       *)
(* exactly one envelope to the transport, of kind message and carrying the *)
(* input as its data; no other step than construction and submit sends.    *)
C9_SubmitSendsOnce ==
    [][/\ (/\ last'.op = "SubmitMessage"
           /\ chat_input.value \notin BlankInputs
           /\ SubmitMessage) =>
            /\ Len(sent') = Len(sent) + 1
            /\ IsPrefix(sent, sent')
            /\ last'.tried = 1
            /\ sent'[Len(sent')].k = "obj"
            /\ sent'[Len(sent')].o["messageType"] = JStr("message")
            /\ sent'[Len(sent')].o["data"] = JStr(chat_input.value)
       /\ sent' # sent => (SubmitMessage \/ Create)]_vars

C9_Witness ==
    /\ last.op = "SubmitMessage"
    /\ last.input = "hello"
    /\ last.tried = 1
    /\ Len(sent) = 2
    /\ sent[2].o["data"] = JStr("hello")

(* C10: after a submit with a non-empty input the input field is empty     *)
(* whether the send succeeded or failed; the session stays Active, the     *)
(* roster and the log are unchanged and the envelope was handed over once. *)
C10_FireAndForget ==
    [][(SubmitMessage /\ chat_input.value \notin BlankInputs) =>
         /\ chat_input'.value = ""
         /\ status' = "Active"
         /\ ~last'.panicked
         /\ users' = users
         /\ messages' = messages
         /\ Len(sent') = Len(sent) + 1]_vars

C10_Witness ==
    /\ last.op = "SubmitMessage"
    /\ last.input = "hello"
    /\ ~last.sendOk
    /\ last.logged = 1
    /\ chat_input.value = ""
    /\ status = "Active"

(* C11: exactly one Register envelope is handed to the transport: nothing  *)
(* is sent and no event is handled before construction; from construction  *)
(* on the first envelope sent is the Register carrying the session's       *)
(* username and no later envelope is a Register; construction leaves an    *)
(* empty roster and an empty log.                                          *)
C11_RegisterOnce ==
    /\ status = "Initializing" =>
         /\ sent = <<>>
         /\ last.op = "none"
         /\ inbound = <<>>
    /\ status # "Initializing" =>
         /\ Len(sent) >= 1
         /\ sent[1].o["messageType"] = JStr("register")
         /\ sent[1].o["data"] = JStr(username)
         /\ \A i \in 2..Len(sent) : sent[i].o["messageType"] # JStr("register")
    /\ last.op = "create" => (users = <<>> /\ messages = <<>>)

C11_Witness ==
    /\ username = "bo"
    /\ Len(sent) = 2
    /\ sent[1].o["data"] = JStr("bo")
    /\ sent[2].o["messageType"] = JStr("message")
    /\ Len(messages) >= 1
    /\ last.op = "SubmitMessage"

(* C12: handling an inbound frame of any kind, a sidebar toggle or an edit *)
(* of the input never hands anything to the transport; construction hands  *)
(* over exactly one envelope and a submit at most one, so the envelopes    *)
(* sent number one plus one per submit that sent.                          *)
C12_SendsConfined ==
    [][/\ (sent' # sent \/ (last' # last /\ last'.tried # 0)) =>
            /\ ~(HandleMsg(last'.s) /\ last'.s \in Frames)
            /\ ~ToggleSidebar
            /\ ~(\E v \in Inputs : TypeInput(v))
       /\ (last'.op = "create" /\ Create) =>
            (sent = <<>> /\ Len(sent') = 1 /\ last'.tried = 1)
       /\ (last'.op = "SubmitMessage" /\ SubmitMessage) =>
            /\ IsPrefix(sent, sent')
            /\ Len(sent') = Len(sent) + last'.tried
            /\ last'.tried <= 1]_vars

C12_Witness ==
    /\ last.op = "ToggleSidebar"
    /\ Len(sent) = 2
    /\ Len(messages) >= 1
    /\ Len(users) >= 1
    /\ ~sidebar_visible

(* C13: the profile shown for a log entry whose sender matches no roster   *)
(* name is {name: from, avatar: url(from)}; when the sender is in the      *)
(* roster it is the first roster profile with exactly that name.           *)
C13_FallbackResolution ==
    /\ Len(shown) = Len(messages)
    /\ \A i \in 1..Len(messages) :
         LET from == messages[i].from
             hits == {j \in 1..Len(users) : users[j].name = from}
         IN IF hits = {}
            THEN shown[i] = [name |-> from, avatar |-> Url(from)]
            ELSE \E j \in hits :
                   /\ \A h \in hits : j <= h
                   /\ shown[i] = users[j]

C13_Witness ==
    /\ Len(messages) = 2
    /\ messages[1].from = "amy"
    /\ messages[2].from = "bo"
    /\ Len(users) = 1
    /\ users[1].name = "bo"
    /\ shown[1] = [name |-> "amy", avatar |-> Url("amy")]
    /\ shown[2] = users[1]

C16_LogMirrorsInbound == messages = inbound

C16_Witness ==
    /\ Len(inbound) = 2
    /\ inbound[1] = ChatMessage(<<"bo", "yo">>)
    /\ inbound[2] = ChatMessage(<<"bo", "yo">>)
    /\ messages = inbound
    /\ Len(users) >= 1
    /\ Len(sent) = 2

(* C17: a submit never changes the roster, the log, the rendered profiles  *)
(* or the session status and returns false (no re-render), whatever the    *)
(* input and whatever the transport outcome.                               *)
C17_SubmitLeavesState ==
    [][SubmitMessage =>
         /\ users' = users
         /\ messages' = messages
         /\ inbound' = inbound
         /\ shown' = shown
         /\ status' = status
         /\ ~last'.ret]_vars

C17_Witness ==
    /\ last.op = "SubmitMessage"
    /\ last.input = "hello"
    /\ last.sendOk
    /\ ~last.ret
    /\ messages = <<>>
    /\ Len(users) = 2

(* C18: every roster profile has the avatar url(name), and the profile     *)
(* shown for a log entry with sender f is {name: f, avatar: url(f)},       *)
(* whether f is in the roster or not.                                      *)
C18_DerivedAvatar ==
    /\ \A j \in 1..Len(users) : users[j].avatar = Url(users[j].name)
    /\ Len(shown) = Len(messages)
    /\ \A i \in 1..Len(messages) :
         shown[i] = [name |-> messages[i].from,
                     avatar |-> Url(messages[i].from)]

C18_Witness ==
    /\ Len(users) = 2
    /\ users[1].name = "bo"
    /\ users[2].name = "bo"
    /\ Len(messages) = 2
    /\ messages[1].from = "amy"
    /\ messages[2].from = "bo"
    /\ shown[2].avatar = Url("bo")

(* C19: a Users envelope whose dataArray is absent or null empties the     *)
(* roster, leaves the log unchanged, returns true (re-render) and raises   *)
(* no error.                                                               *)
C19_UsersWithoutList ==
    [][\A s \in UsersNoListFrames :
         HandleMsg(s) =>
           /\ users' = <<>>
           /\ messages' = messages
           /\ last'.ret
           /\ ~last'.panicked
           /\ status' = "Active"]_vars

C19_Witness ==
    /\ last.op = "HandleMsg"
    /\ last.s \in UsersNoListFrames
    /\ "dataArray" \notin DOMAIN last.s.o
    /\ users = <<>>
    /\ last.ret
    /\ Len(messages) >= 1

(* C20: construction completes whatever try_send returns for the Register  *)
(* envelope: the session is Active with an empty roster and an empty log   *)
(* and with the same fields after a failed send as after a successful one, *)
(* and no later step hands a Register envelope to the transport.           *)
C20_RegisterFailureSilent ==
    [][/\ Create =>
            /\ status' = "Active"
            /\ ~last'.panicked
            /\ users' = <<>>
            /\ messages' = <<>>
            /\ shown' = <<>>
            /\ sidebar_visible'
            /\ chat_input' = [mounted |-> TRUE, value |-> ""]
            /\ Len(sent') = 1
            /\ last'.logged = IF last'.sendOk THEN 1 ELSE 0
       /\ ~Create =>
            \A i \in (Len(sent) + 1)..Len(sent') :
              sent'[i].o["messageType"] # JStr("register")]_vars

C20_Witness ==
    /\ last.op = "create"
    /\ ~last.sendOk
    /\ last.logged = 0
    /\ status = "Active"
    /\ users = <<>>
    /\ messages = <<>>

====
